---- MODULE Spec2Model ----
(***************************************************************************)
(* Cue synthesis pipeline of voxtral_subs.py: split_sentences,             *)
(* distribute_time, post_merge and the "smooth timing" loop of             *)
(* transcribe_voxtral.                                                     *)
(*                                                                         *)
(* Text is a sequence of one-character strings.  Time is an integer count  *)
(* of fine units: one tick is 0.05 s and one tick is Unit fine units,      *)
(* where Unit is chosen so that every quotient the code computes           *)
(* (dur * (l / total), dur / 2) is an integer.  Arithmetic is exact: the   *)
(* rounding of IEEE doubles is not modelled.                               *)
(***************************************************************************)
EXTENDS Integers, Sequences, FiniteSets, TLC

VARIABLES pc,          \* position of the function under analysis
          cfg,         \* keyword arguments: max_chars, min_dur, max_dur, join_gap
          text,        \* split_sentences: argument text
          sents,       \* split_sentences: returned list / distribute_time: sentences
          start_s,     \* distribute_time: argument start_s
          end_s,       \* distribute_time: argument end_s
          segs,        \* distribute_time: returned list
          raw_chunks,  \* transcribe_voxtral: raw_chunks
          k,           \* loop index of the running for loop (elements consumed)
          segments,    \* post_merge: argument segments (transcribe_voxtral: fine)
          merged,      \* post_merge: merged
          final,       \* post_merge: final
          origin,      \* history: origin[j] = index in merged of the cue final[j] came from
          cut          \* history: cut[i] = split_idx used for merged[i], -1 if kept whole

vars == <<pc, cfg, text, sents, start_s, end_s, segs, raw_chunks, k, segments,
          merged, final, origin, cut>>

----------------------------------------------------------------------------
(* Bounds of the model *)

MaxTextLen == 5      \* split_sentences: longest enumerated argument text
MaxCharsArg == 3     \* split_sentences: largest enumerated max_chars
MaxT == 6            \* distribute_time: latest chunk time, in ticks
MaxSents == 3        \* distribute_time: most sentences of a chunk
MaxSentLen == 3      \* distribute_time: longest sentence
MaxCues == 3         \* post_merge: most cues of an enumerated cue sequence
MaxCueT == 2         \* post_merge: latest time of an enumerated cue, in ticks
MaxCueTextLen == 4   \* post_merge: longest enumerated text of a single cue
LongLen == 34        \* post_merge: length of the one-break long texts
MaxAudio == 9        \* transcribe_voxtral: longest audio, in ticks

(* Program constants; times in ticks of 0.05 s *)

DefaultMaxChars == 84    \* max_chars=84
FloorDur == 4            \* max(0.2, ...)
JoinGapDefault == 5      \* join_gap=0.25
SplitWindow == 15        \* mid_c-15, mid_c+15

(* Time scale *)

RECURSIVE Gcd(_, _)
Gcd(a, b) == IF b = 0 THEN a ELSE Gcd(b, a % b)

RECURSIVE LcmUpTo(_)
LcmUpTo(n) == IF n <= 1 THEN 1 ELSE LET l == LcmUpTo(n - 1) IN (l * n) \div Gcd(l, n)

\* the largest total of sentence weights the model allocates over
MaxWeight == MaxSents * MaxSentLen

\* fine units per tick: divisible by 2 and by every total up to MaxWeight
Unit == 2 * LcmUpTo(MaxWeight)

Ticks(n) == n * Unit

\* a / b where the model's scale makes the quotient exact
Div(a, b) == CHOOSE q \in {a \div b} : q * b = a

----------------------------------------------------------------------------
(* Characters and strings *)

Space == " "
Punct == {".", "!", "?"}              \* [.!?]
Closers == {"\"", "'", ")", "]"}      \* ["')\]]

Max(a, b) == IF a >= b THEN a ELSE b
Min(a, b) == IF a <= b THEN a ELSE b

\* t[a..b] as Python's slice t[a-1:b] (empty when b < a)
Slice(t, a, b) == IF b < a THEN <<>> ELSE SubSeq(t, a, b)

\* last index of the maximal run of characters of S that starts at i; i-1 if none
RECURSIVE RunEnd(_, _, _)
RunEnd(t, i, S) ==
  IF i <= Len(t) /\ t[i] \in S THEN RunEnd(t, i + 1, S) ELSE i - 1

\* str.lstrip(chars) / str.rstrip(chars)
LStripSet(t, S) == Slice(t, RunEnd(t, 1, S) + 1, Len(t))

RECURSIVE RStripSet(_, _)
RStripSet(t, S) ==
  IF t # <<>> /\ t[Len(t)] \in S THEN RStripSet(Slice(t, 1, Len(t) - 1), S) ELSE t

\* str.strip()
Strip(t) == RStripSet(LStripSet(t, {Space}), {Space})

\* re.sub(r"\s+", " ", text): every run of whitespace becomes one space
RECURSIVE SubSpaces(_)
SubSpaces(t) ==
  IF t = <<>> THEN <<>>
  ELSE IF t[1] = Space
       THEN <<Space>> \o SubSpaces(LStripSet(t, {Space}))
       ELSE <<t[1]>> \o SubSpaces(Tail(t))

\* re.sub(r"\s+", " ", text).strip()
Collapse(t) == Strip(SubSpaces(t))

\* str.split(): the maximal runs of non-whitespace
RECURSIVE SplitWords(_)
SplitWords(t) ==
  LET u == LStripSet(t, {Space}) IN
  IF u = <<>> THEN <<>>
  ELSE LET e == CHOOSE i \in 1..Len(u) :
                  /\ \A j \in 1..i : u[j] # Space
                  /\ (i = Len(u) \/ u[i + 1] = Space)
       IN <<Slice(u, 1, e)>> \o SplitWords(Slice(u, e + 1, Len(u)))

\* " ".join(words)
RECURSIVE JoinSp(_)
JoinSp(ws) ==
  IF ws = <<>> THEN <<>>
  ELSE IF Len(ws) = 1 THEN ws[1]
  ELSE ws[1] \o <<Space>> \o JoinSp(Tail(ws))

----------------------------------------------------------------------------
(* split_sentences *)

\* _SENT_SPLIT matched at index i of t: the index of the last character the
\* match consumes, or 0 when there is no match at i.
\*   (?<=\S)  (?:[.!?]+(?:["')\]]+)?)  (?:\s+|$)
\* Both runs are greedy and what follows a shorter run is a character the rest
\* of the pattern cannot take, so only the maximal runs can match.
SentSplitEnd(t, i) ==
  IF ~(i >= 2 /\ i <= Len(t) /\ t[i - 1] # Space /\ t[i] \in Punct) THEN 0
  ELSE LET j == RunEnd(t, i, Punct)
           q == RunEnd(t, j + 1, Closers)
       IN IF q < Len(t) /\ t[q + 1] = Space THEN RunEnd(t, q + 1, {Space})
          ELSE IF q = Len(t) THEN q
          ELSE 0

\* re.split(_SENT_SPLIT, text): the pieces between successive leftmost matches
RECURSIVE SentSplitFrom(_, _, _)
SentSplitFrom(t, pos, i) ==
  IF i > Len(t) THEN <<Slice(t, pos, Len(t))>>
  ELSE LET e == SentSplitEnd(t, i) IN
       IF e > 0 THEN <<Slice(t, pos, i - 1)>> \o SentSplitFrom(t, e + 1, e + 1)
       ELSE SentSplitFrom(t, pos, i + 1)

\* re.split(r'(?<=[.!?])\s+', text): cut at whitespace that follows punctuation
RECURSIVE LooseSplitFrom(_, _, _)
LooseSplitFrom(t, pos, i) ==
  IF i > Len(t) THEN <<Slice(t, pos, Len(t))>>
  ELSE IF i >= 2 /\ t[i] = Space /\ t[i - 1] \in Punct
       THEN LET e == RunEnd(t, i, {Space})
            IN <<Slice(t, pos, i - 1)>> \o LooseSplitFrom(t, e + 1, e + 1)
       ELSE LooseSplitFrom(t, pos, i + 1)

\* parts, after the fallback of lines 63-64
SentenceParts(t) ==
  LET parts == SentSplitFrom(t, 1, 1)
  IN IF Len(parts) <= 1 THEN LooseSplitFrom(t, 1, 1) ELSE parts

\* line 73 with the budget one character too wide
WordFits_OffByOne(cur, add, maxc) == cur + add <= maxc + 1

\* the test of line 73: the word fits in the running buffer
WordFits(cur, add, maxc) == cur + add <= maxc

\* lines 70-75: greedy packing of the words of one over-long part.
\* st = [out, buf, cur] after the words before index i.
RECURSIVE WrapFrom(_, _, _, _)
WrapFrom(words, i, st, maxc) ==
  IF i > Len(words)
  THEN IF st.buf # <<>> THEN Append(st.out, JoinSp(st.buf)) ELSE st.out
  ELSE LET w == words[i]
           add == (IF st.buf # <<>> THEN 1 ELSE 0) + Len(w)
       IN IF WordFits(st.cur, add, maxc)
          THEN WrapFrom(words, i + 1,
                        [out |-> st.out, buf |-> Append(st.buf, w), cur |-> st.cur + add],
                        maxc)
          ELSE WrapFrom(words, i + 1,
                        [out |-> Append(st.out, JoinSp(st.buf)), buf |-> <<w>>, cur |-> Len(w)],
                        maxc)

WrapPart(p, maxc) ==
  WrapFrom(SplitWords(p), 1, [out |-> <<>>, buf |-> <<>>, cur |-> 0], maxc)

\* lines 65-76: the loop over parts
RECURSIVE SentencesOfParts(_, _)
SentencesOfParts(parts, maxc) ==
  IF parts = <<>> THEN <<>>
  ELSE LET p == Strip(parts[1])
           rest == SentencesOfParts(Tail(parts), maxc)
       IN IF p = <<>> THEN rest
          ELSE IF Len(p) <= maxc THEN <<p>> \o rest
          ELSE WrapPart(p, maxc) \o rest

split_sentences(t, maxc) ==
  LET c == Collapse(t)
  IN IF c = <<>> THEN <<>> ELSE SentencesOfParts(SentenceParts(c), maxc)

----------------------------------------------------------------------------
(* distribute_time *)

Cue(s, e, t) == [start |-> s, end |-> e, text |-> t]

\* line 81: lengths=[max(1,len(s)) for s in sentences]
Weights(sentences) == [i \in 1..Len(sentences) |-> Max(1, Len(sentences[i]))]

RECURSIVE SumTo(_, _)
SumTo(f, n) == IF n = 0 THEN 0 ELSE f[n] + SumTo(f, n - 1)

\* line 79: dur=max(0.2,end_s-start_s)
WindowDur(s, e) == Max(Ticks(FloorDur), e - s)

\* line 86: the end of the last cue
LastEnd(s, e, walked) == e

\* lines 78-87
distribute_time(s, e, sentences) ==
  IF sentences = <<>> THEN <<>>
  ELSE LET n == Len(sentences)
           dur == WindowDur(s, e)
           lengths == Weights(sentences)
           total == SumTo(lengths, n)
           times == [i \in 1..n |-> Div(dur * lengths[i], total)]
           \* t before and after iteration i of the loop of lines 84-85
           tAt(i) == s + SumTo(times, i)
       IN [i \in 1..n |->
             Cue(tAt(i - 1),
                 IF i = n THEN LastEnd(s, e, tAt(n)) ELSE tAt(i),
                 sentences[i])]

----------------------------------------------------------------------------
(* post_merge *)

\* line 94 with gap<join_gap
ShouldAbsorb_StrictGap(prev, seg, c) ==
  LET gap == seg.start - prev.end
      prev_dur == prev.end - prev.start
  IN prev_dur < c.min_dur /\ gap < c.join_gap

\* line 94: prev_dur<min_dur and gap<=join_gap
ShouldAbsorb(prev, seg, c) ==
  LET gap == seg.start - prev.end
      prev_dur == prev.end - prev.start
  IN prev_dur < c.min_dur /\ gap <= c.join_gap

\* line 95: prev grown by seg
Absorb(prev, seg) ==
  Cue(prev.start, seg.end, Strip(prev.text \o <<Space>> \o seg.text))

\* lines 92-97: one iteration of the merge loop
MergeStep(m, seg, c) ==
  IF m = <<>> THEN <<seg>>
  ELSE IF ShouldAbsorb(m[Len(m)], seg, c)
       THEN [m EXCEPT ![Len(m)] = Absorb(m[Len(m)], seg)]
       ELSE Append(m, seg)

\* line 101 without the test of the text length
WithinBounds_DurOnly(seg, c) == seg.end - seg.start <= c.max_dur

\* line 101: the cue is kept as it is
WithinBounds(seg, c) ==
  seg.end - seg.start <= c.max_dur /\ Len(seg.text) <= c.max_chars

\* line 105: the list the character is looked up in
BreakList == {",", " ", "; ", ":"}

\* lines 102-107: split_idx (an index of Python: 0 is the first character)
SplitIdx(t) ==
  LET mid_c == Len(t) \div 2
      lo == Max(1, mid_c - SplitWindow)
      hi == Min(Len(t) - 1, mid_c + SplitWindow)
      hits == {i \in lo..(hi - 1) : t[i + 1] \in BreakList}
  IN IF hits = {} THEN mid_c ELSE CHOOSE i \in hits : \A j \in hits : i <= j

\* line 102: mid_t=seg["start"]+dur/2
MidT(seg) == seg.start + Div(seg.end - seg.start, 2)

\* line 108
LeftText(t, idx) == Strip(RStripSet(Slice(t, 1, idx), {",", Space}))
RightText(t, idx) == Strip(LStripSet(Slice(t, idx + 1, Len(t)), {",", Space}))

\* lines 108-110 with the right cue starting at seg["start"]
Halves_RightFromStart(seg, idx) ==
  LET left == LeftText(seg.text, idx)
      right == RightText(seg.text, idx)
  IN (IF left # <<>> THEN <<Cue(seg.start, MidT(seg), left)>> ELSE <<>>)
     \o (IF right # <<>> THEN <<Cue(seg.start, seg.end, right)>> ELSE <<>>)

\* lines 108-110: the cues appended for a cue that is split at idx
Halves(seg, idx) ==
  LET left == LeftText(seg.text, idx)
      right == RightText(seg.text, idx)
  IN (IF left # <<>> THEN <<Cue(seg.start, MidT(seg), left)>> ELSE <<>>)
     \o (IF right # <<>> THEN <<Cue(MidT(seg), seg.end, right)>> ELSE <<>>)

\* lines 100-110: one iteration of the split loop
SplitStep(seg, c) ==
  IF WithinBounds(seg, c) THEN <<seg>> ELSE Halves(seg, SplitIdx(seg.text))

----------------------------------------------------------------------------
(* Inputs *)

\* every string over A of length 0..n
Strings(A, n) == UNION {[1..m -> A] : m \in 0..n}

\* "aaa...": n letters
Letters(n) == [i \in 1..n |-> "a"]

\* "Hello world. This is a test."
HelloText ==
  <<"H","e","l","l","o"," ","w","o","r","l","d","."," ","T","h","i","s"," ",
    "i","s"," ","a"," ","t","e","s","t",".">>

\* "A very long sentence that definitely exceeds the character budget we
\* have configured"
BudgetText ==
  <<"A"," ","v","e","r","y"," ","l","o","n","g"," ","s","e","n","t","e","n",
    "c","e"," ","t","h","a","t"," ","d","e","f","i","n","i","t","e","l","y",
    " ","e","x","c","e","e","d","s"," ","t","h","e"," ","c","h","a","r","a",
    "c","t","e","r"," ","b","u","d","g","e","t"," ","w","e"," ","h","a","v",
    "e"," ","c","o","n","f","i","g","u","r","e","d">>

SegAlphabet == {"a", Space, ".", "\""}
SegTexts == Strings(SegAlphabet, MaxTextLen) \cup {HelloText}
SegMaxChars == (1..MaxCharsArg) \cup {DefaultMaxChars}

AllocSentences == UNION {[1..m -> {Letters(l) : l \in 0..MaxSentLen}] : m \in 0..MaxSents}

\* keyword arguments of post_merge, in ticks: for the cue sequences, where the
\* merge pass decides, and for the single cues, where the split pass decides
MergeCfgs ==
  [max_chars : {3}, min_dur : {Ticks(1), Ticks(2)}, max_dur : {Ticks(1)},
   join_gap : {0, Ticks(1)}, n : {0}, chunk_s : {0}, stride_s : {0}]

SplitCfgs ==
  [max_chars : {1, 3}, min_dur : {Ticks(1)}, max_dur : {Ticks(1), Ticks(2)},
   join_gap : {0}, n : {0}, chunk_s : {0}, stride_s : {0}]

\* cues of whole-tick times with end >= start
TickCues(T, texts) ==
  {Cue(Ticks(w[1]), Ticks(w[2]), t) :
     w \in {v \in (0..T) \X (0..T) : v[1] <= v[2]}, t \in texts}

CueSeqs == UNION {[1..m -> TickCues(MaxCueT, {<<"a", Space, "b">>})] : m \in 0..MaxCues}

SplitAlphabet == {"a", Space, ",", ";", ":"}

\* LongLen letters with the character at one place replaced by c
OneBreakTexts ==
  {[i \in 1..LongLen |-> IF i = p THEN c ELSE "a"] : p \in 1..LongLen, c \in SplitAlphabet}

SingleCueTexts == Strings(SplitAlphabet, MaxCueTextLen) \cup OneBreakTexts

\* command-line arguments and audio length of transcribe_voxtral, in ticks
PipeCfgs ==
  [max_chars : {2, DefaultMaxChars}, min_dur : {Ticks(1), Ticks(16)},
   max_dur : {Ticks(2), Ticks(120)}, join_gap : {Ticks(JoinGapDefault)},
   n : 1..MaxAudio, chunk_s : {6}, stride_s : {2}]

\* what the model may return for one chunk, after .strip()
ChunkTexts ==
  { <<>>,
    <<"a", ".">>,
    <<"a", "a", "a", ".", Space, "a">>,
    <<"a", ".", Space, "a", ".", Space, "a">>,
    <<"a", "a", "a", "a", Space, "a", "a">> }

----------------------------------------------------------------------------
(* Initial states: the arguments of the function under analysis *)

NoCfg == [max_chars |-> 0, min_dur |-> 0, max_dur |-> 0, join_gap |-> 0,
          n |-> 0, chunk_s |-> 0, stride_s |-> 0]

SegIdle == text = <<>> /\ sents = <<>>
AllocIdle == start_s = 0 /\ end_s = 0 /\ segs = <<>>
NormIdle == /\ k = 0 /\ segments = <<>> /\ merged = <<>> /\ final = <<>>
            /\ origin = <<>> /\ cut = <<>>
PipeIdle == raw_chunks = <<>>

\* split_sentences(text, max_chars)
SegInit ==
  /\ pc = "split_sentences"
  /\ text \in SegTexts
  /\ sents = <<>>
  /\ \E m \in SegMaxChars : cfg = [NoCfg EXCEPT !.max_chars = m]
  /\ AllocIdle /\ NormIdle /\ PipeIdle

\* distribute_time(start_s, end_s, sentences) with 0 <= start_s <= end_s
AllocInit ==
  /\ pc = "distribute_time"
  /\ cfg = NoCfg
  /\ text = <<>>
  /\ sents \in AllocSentences
  /\ \E s \in 0..MaxT : \E e \in s..MaxT : start_s = Ticks(s) /\ end_s = Ticks(e)
  /\ segs = <<>>
  /\ NormIdle /\ PipeIdle

\* post_merge(segments, min_dur, max_dur, join_gap, max_chars)
NormInit ==
  /\ pc = "merge"
  /\ \/ cfg \in MergeCfgs /\ segments \in CueSeqs
     \/ /\ cfg \in SplitCfgs
        /\ \E t \in SingleCueTexts : \E e \in 0..MaxCueT :
             segments = <<Cue(0, Ticks(e), t)>>
     \/ \* the cue of 8.0 s and 84 characters, max_dur=6.0, max_chars=40
        /\ cfg = [NoCfg EXCEPT !.max_chars = 40, !.min_dur = Ticks(16),
                               !.max_dur = Ticks(120), !.join_gap = Ticks(JoinGapDefault)]
        /\ segments = <<Cue(0, Ticks(160), BudgetText)>>
  /\ k = 0 /\ merged = <<>> /\ final = <<>> /\ origin = <<>> /\ cut = <<>>
  /\ SegIdle /\ AllocIdle /\ PipeIdle

\* transcribe_voxtral, at the while loop of line 155
PipeInit ==
  /\ pc = "transcribe"
  /\ cfg \in PipeCfgs
  /\ raw_chunks = <<>>
  /\ SegIdle /\ AllocIdle /\ NormIdle

----------------------------------------------------------------------------
(* Actions *)

\* split_sentences, lines 59-76
Segment ==
  /\ pc = "split_sentences"
  /\ sents' = split_sentences(text, cfg.max_chars)
  /\ pc' = "returned"
  /\ UNCHANGED <<cfg, text, start_s, end_s, segs, raw_chunks, k, segments,
                 merged, final, origin, cut>>

\* distribute_time, lines 78-87
Distribute ==
  /\ pc = "distribute_time"
  /\ segs' = distribute_time(start_s, end_s, sents)
  /\ pc' = "returned"
  /\ UNCHANGED <<cfg, text, sents, start_s, end_s, raw_chunks, k, segments,
                 merged, final, origin, cut>>

\* post_merge, lines 91-97: one iteration of "for seg in segments"
MergeIter ==
  /\ pc = "merge"
  /\ k < Len(segments)
  /\ merged' = MergeStep(merged, segments[k + 1], cfg)
  /\ k' = k + 1
  /\ UNCHANGED <<pc, cfg, text, sents, start_s, end_s, segs, raw_chunks, segments,
                 final, origin, cut>>

\* post_merge, line 98: the merge loop is exhausted
MergeExit ==
  /\ pc = "merge"
  /\ k = Len(segments)
  /\ pc' = "split"
  /\ k' = 0
  /\ UNCHANGED <<cfg, text, sents, start_s, end_s, segs, raw_chunks, segments,
                 merged, final, origin, cut>>

\* post_merge, lines 99-110: one iteration of "for seg in merged"
SplitIter ==
  /\ pc = "split"
  /\ k < Len(merged)
  /\ LET seg == merged[k + 1]
         new == SplitStep(seg, cfg)
     IN /\ final' = final \o new
        /\ origin' = origin \o [j \in 1..Len(new) |-> k + 1]
        /\ cut' = Append(cut, IF WithinBounds(seg, cfg) THEN -1 ELSE SplitIdx(seg.text))
  /\ k' = k + 1
  /\ UNCHANGED <<pc, cfg, text, sents, start_s, end_s, segs, raw_chunks, segments, merged>>

\* post_merge, line 111: return final
SplitExit ==
  /\ pc = "split"
  /\ k = Len(merged)
  /\ pc' = "returned"
  /\ UNCHANGED <<cfg, text, sents, start_s, end_s, segs, raw_chunks, k, segments,
                 merged, final, origin, cut>>

\* transcribe_voxtral, lines 155-181: pos, the start sample of the next chunk
Pos == Len(raw_chunks) * Max(1, cfg.chunk_s - cfg.stride_s)

\* transcribe_voxtral, lines 155-181: one chunk is transcribed; the text is
\* whatever the model returns
Transcribe ==
  /\ pc = "transcribe"
  /\ Pos < cfg.n
  /\ \E t \in ChunkTexts :
       raw_chunks' = Append(raw_chunks,
                            Cue(Ticks(Pos), Ticks(Min(cfg.n, Pos + cfg.chunk_s)), t))
  /\ UNCHANGED <<pc, cfg, text, sents, start_s, end_s, segs, k, segments,
                 merged, final, origin, cut>>

\* transcribe_voxtral, line 155: pos >= n ends the while loop
TranscribeExit ==
  /\ pc = "transcribe"
  /\ Pos >= cfg.n
  /\ pc' = "smooth"
  /\ UNCHANGED <<cfg, text, sents, start_s, end_s, segs, raw_chunks, k, segments,
                 merged, final, origin, cut>>

\* transcribe_voxtral, lines 195-198: one iteration of "for seg in raw_chunks";
\* segments is the list fine
SmoothIter ==
  /\ pc = "smooth"
  /\ k < Len(raw_chunks)
  /\ LET seg == raw_chunks[k + 1]
         sentences == split_sentences(seg.text, cfg.max_chars)
     IN segments' = IF sentences = <<>> THEN segments
                    ELSE segments \o distribute_time(seg.start, seg.end, sentences)
  /\ k' = k + 1
  /\ UNCHANGED <<pc, cfg, text, sents, start_s, end_s, segs, raw_chunks,
                 merged, final, origin, cut>>

\* transcribe_voxtral, line 199: post_merge(fine, ...) is entered
CallPostMerge ==
  /\ pc = "smooth"
  /\ k = Len(raw_chunks)
  /\ pc' = "merge"
  /\ k' = 0
  /\ UNCHANGED <<cfg, text, sents, start_s, end_s, segs, raw_chunks, segments,
                 merged, final, origin, cut>>

----------------------------------------------------------------------------
(* Specifications *)

SegNext == Segment
SegSpec == SegInit /\ [][SegNext]_vars

AllocNext == Distribute
AllocSpec == AllocInit /\ [][AllocNext]_vars

NormNext == MergeIter \/ MergeExit \/ SplitIter \/ SplitExit
NormSpec == NormInit /\ [][NormNext]_vars

PipeNext == Transcribe \/ TranscribeExit \/ SmoothIter \/ CallPostMerge \/ NormNext
PipeSpec == PipeInit /\ [][PipeNext]_vars

Init == SegInit \/ AllocInit \/ NormInit \/ PipeInit
Next == SegNext \/ AllocNext \/ PipeNext
Spec == Init /\ [][Next]_vars

----------------------------------------------------------------------------
(* Properties of distribute_time (AllocSpec) *)

Tiles(cs, s, e) ==
  /\ cs[1].start = s
  /\ \A i \in 2..Len(cs) : cs[i].start = cs[i - 1].end
  /\ \A i \in 1..Len(cs) : s <= cs[i].start /\ cs[i].start <= cs[i].end /\ cs[i].end <= e
  /\ cs[Len(cs)].end = e

\* C1: for every window 0 <= start <= end, of any length, and every non-empty
\* sentence sequence, the cues returned by distribute_time tile [start, end]:
\* the first starts at start, each later one starts where its predecessor ends,
\* every cue has start <= cue.start <= cue.end <= end, and the last ends at end.
C1_Tiling ==
  (pc = "returned" /\ sents # <<>>) => Tiles(segs, start_s, end_s)

\* The same for the windows that are at least the floor of 0.2 s long.
C1_TilingFromFloor ==
  (pc = "returned" /\ sents # <<>> /\ end_s - start_s >= Ticks(FloorDur))
    => Tiles(segs, start_s, end_s)

----------------------------------------------------------------------------
(* Properties of transcribe_voxtral's cue synthesis (PipeSpec) *)

\* C2: for the chunks of overlapping windows in time order, every cue of the
\* final sequence has end >= start and the sequence is non-decreasing in start.
C2_Ordered ==
  pc = "returned" =>
    /\ \A j \in 1..Len(final) : final[j].end >= final[j].start
    /\ \A j \in 1..(Len(final) - 1) : final[j].start <= final[j + 1].start

----------------------------------------------------------------------------
(* Properties of post_merge (NormSpec) *)

\* C3: in the merge pass, an absorption never decreases the end of the cue it
\* grows, and the accumulator never holds more cues than were consumed.
C3_MergeSafety ==
  /\ [](pc = "merge" => Len(merged) <= k)
  /\ [][(pc = "merge" /\ merged # <<>> /\ Len(merged') = Len(merged))
          => merged'[Len(merged)].end >= merged[Len(merged)].end]_vars

\* the cue exceeds max_dur or max_chars
Exceeds(c) == c.end - c.start > cfg.max_dur \/ Len(c.text) > cfg.max_chars

\* the 84-character cue of 8.0 s has gone through post_merge with
\* max_dur=6.0, max_chars=40
BudgetCase ==
  /\ pc = "returned"
  /\ segments = <<Cue(0, Ticks(160), BudgetText)>>
  /\ cfg.max_chars = 40 /\ cfg.max_dur = Ticks(120)

\* C4: after the split pass, any output cue that exceeds max_dur or max_chars
\* has a text of length <= 2; and the 84-character cue of 8.0 s split with
\* max_dur=6.0, max_chars=40 yields two cues of at most 40 characters each.
C4_SplitCorrect ==
  /\ pc = "returned" => \A j \in 1..Len(final) : Exceeds(final[j]) => Len(final[j].text) <= 2
  /\ BudgetCase => Len(final) = 2 /\ \A j \in 1..2 : Len(final[j].text) <= 40

\* C4 as amended: an output cue that exceeds max_dur or max_chars is one half of
\* a cue that exceeded a bound and was split once: it lasts half as long as
\* that cue and its text is no longer, and shorter when that text has 2 or more
\* characters.  The 84-character cue yields the cues of 36 and 47 characters
\* that meet at 4.0 s.
C4_SplitOnce ==
  /\ \A j \in 1..Len(final) :
       LET f == final[j]
           m == merged[origin[j]]
       IN Exceeds(f) =>
            /\ Exceeds(m)
            /\ 2 * (f.end - f.start) = m.end - m.start
            /\ Len(f.text) <= Len(m.text)
            /\ Len(m.text) >= 2 => Len(f.text) < Len(m.text)
  /\ BudgetCase =>
       /\ Len(final) = 2
       /\ final[1] = Cue(0, Ticks(80), SubSeq(BudgetText, 1, 36))
       /\ final[2] = Cue(Ticks(80), Ticks(160), SubSeq(BudgetText, 38, 84))

\* a half of a split cue is returned that still exceeds a bound, with a text
\* of more than 2 characters
C4_Witness ==
  /\ pc = "returned"
  /\ \E j \in 1..Len(final) :
       Exceeds(final[j]) /\ cut[origin[j]] >= 0 /\ Len(final[j].text) > 2

\* the split index of the claim: the first comma, space, semicolon or colon in
\* the window, else mid_c
ClaimedSplitIdx(t) ==
  LET mid_c == Len(t) \div 2
      hits == {i \in Max(1, mid_c - 15)..(Min(Len(t) - 1, mid_c + 15) - 1) :
                 t[i + 1] \in {",", " ", ";", ":"}}
  IN IF hits = {} THEN mid_c ELSE CHOOSE i \in hits : \A j \in hits : i <= j

\* C8: every cue the split pass splits is split at the smallest index of the
\* window [max(1, mid_c-15), min(len-1, mid_c+15)) that holds a comma, a space,
\* a semicolon or a colon, and at mid_c if the window holds none.
C8_SplitIndex ==
  \A i \in 1..Len(cut) : cut[i] >= 0 => cut[i] = ClaimedSplitIdx(merged[i].text)

\* C9: the merge pass absorbs the incoming cue into the last (grown) entry
\* exactly when that entry lasts less than min_dur and the gap is at most
\* join_gap, and appends it otherwise; so no two adjacent cues (a, b) of the
\* accumulator have a shorter than min_dur with b.start - a.end <= join_gap, and
\* the first cue of the accumulator starts where the first input cue starts.
C9_AbsorbRule ==
  /\ [](/\ \A i \in 1..(Len(merged) - 1) :
             ~(/\ merged[i].end - merged[i].start < cfg.min_dur
               /\ merged[i + 1].start - merged[i].end <= cfg.join_gap)
        /\ merged # <<>> => merged[1].start = segments[1].start)
  /\ [][(pc = "merge" /\ k < Len(segments) /\ merged # <<>>) =>
          LET prev == merged[Len(merged)]
              seg == segments[k + 1]
          IN IF /\ prev.end - prev.start < cfg.min_dur
                /\ seg.start - prev.end <= cfg.join_gap
             THEN /\ Len(merged') = Len(merged)
                  /\ merged'[Len(merged)].start = prev.start
                  /\ merged'[Len(merged)].end = seg.end
                  /\ \A i \in 1..(Len(merged) - 1) : merged'[i] = merged[i]
             ELSE merged' = Append(merged, seg)]_vars

\* three cues were merged into one: the third was absorbed into the entry
\* that had already grown by the second
C9_Witness ==
  pc = "split" /\ Len(segments) = 3 /\ Len(merged) = 1

\* the indices in final of the cues that came from merged[i]
From(i) == {j \in 1..Len(final) : origin[j] = i}

First(S) == CHOOSE j \in S : \A x \in S : j <= x
Last(S) == CHOOSE j \in S : \A x \in S : j >= x

\* C10: the cues the split pass emits for a cue with non-empty text begin at
\* that cue's start and finish at its end, the left half ending where the right
\* half starts.
C10_SpanPreserved ==
  \A i \in 1..Len(cut) :
    merged[i].text # <<>> =>
      /\ From(i) # {}
      /\ final[First(From(i))].start = merged[i].start
      /\ final[Last(From(i))].end = merged[i].end
      /\ Cardinality(From(i)) = 2 => final[First(From(i))].end = final[Last(From(i))].start

\* C10 as amended: a cue that is kept, or split into two non-empty halves, keeps
\* its span, the halves meeting at the midpoint; when only one half is
\* non-empty the one cue emitted spans that half alone, [start, mid_t] or
\* [mid_t, end]; when neither is, no cue is emitted.
C10_SpanOrHalf ==
  \A i \in 1..Len(cut) :
    LET m == merged[i]
        P == From(i)
        a == final[First(P)]
        b == final[Last(P)]
    IN /\ Cardinality(P) <= 2
       /\ cut[i] = -1 => Cardinality(P) = 1 /\ a = m
       /\ (cut[i] >= 0 /\ Cardinality(P) = 2) =>
            /\ a.start = m.start /\ b.end = m.end
            /\ a.end = b.start /\ 2 * a.end = m.start + m.end
       /\ (cut[i] >= 0 /\ Cardinality(P) = 1) =>
            \/ a.start = m.start /\ 2 * a.end = m.start + m.end
            \/ 2 * a.start = m.start + m.end /\ a.end = m.end

\* a cue that lasts was split and one half alone was emitted
C10_Witness ==
  /\ pc = "returned"
  /\ \E i \in 1..Len(cut) :
       /\ cut[i] >= 0 /\ Cardinality(From(i)) = 1
       /\ merged[i].end > merged[i].start /\ merged[i].text # <<>>

----------------------------------------------------------------------------
(* Properties of split_sentences (SegSpec) *)

\* C5: every Sentence returned has length <= max_chars, unless it is exactly
\* one word whose own length exceeds max_chars.
C5_LengthBound ==
  pc = "returned" =>
    \A i \in 1..Len(sents) :
      \/ Len(sents[i]) <= cfg.max_chars
      \/ \A j \in 1..Len(sents[i]) : sents[i][j] # Space

\* a part was wrapped: a word longer than max_chars was returned on its own,
\* beside another Sentence
C5_Witness ==
  /\ pc = "returned"
  /\ \E i, j \in 1..Len(sents) :
       i # j /\ Len(sents[i]) > cfg.max_chars /\ sents[j] # <<>>

\* C6: every Sentence returned is a non-empty trimmed string, also when a word
\* longer than max_chars stands first, in the middle or last in its fragment.
C6_NonEmptyTrimmed ==
  pc = "returned" =>
    \A i \in 1..Len(sents) : sents[i] # <<>> /\ Strip(sents[i]) = sents[i]

\* C7: the sentence-ending punctuation stays in the Sentences: for a text that
\* fits in max_chars (so each of its sentences does) the Sentences joined by
\* single spaces are the collapsed, trimmed text, and
\* split_sentences("Hello world. This is a test.", 84) is
\* ["Hello world.", "This is a test."].
C7_PunctuationKept ==
  pc = "returned" =>
    /\ Len(Collapse(text)) <= cfg.max_chars => JoinSp(sents) = Collapse(text)
    /\ (text = HelloText /\ cfg.max_chars = 84) =>
         sents = <<SubSeq(HelloText, 1, 12), SubSeq(HelloText, 14, 28)>>

====
